---- MODULE Spec2Model ----
(***************************************************************************)
(* Guildie: the attendance-driven DKP ledger.                              *)
(*                                                                         *)
(* The database (events, characters, attendances) is the shared state.     *)
(* Every HTTP request is a handler that runs in a slot; a handler is a     *)
(* sequence of awaited database calls, and each database call is one       *)
(* atomic step: between two awaits of one handler, the steps of the other  *)
(* handlers may run.  The synchronous code before a handler's first        *)
(* database call (authentication against the unchanging users table,       *)
(* parsing and validation of the body) is part of its first step.          *)
(***************************************************************************)
EXTENDS Integers, Sequences, FiniteSets, TLC

\* ------------------------------------------------------------------ bounds
MaxEvents == 4
MaxChars == 3
MaxReward == 2
MaxBulkLen == 2
MaxSeqBulkLen == 3
MaxOccurrences == 3
MaxWishes == 3
NumSlots == 2
MaxRequests == 2

EventIds == 1..MaxEvents
CharIds == 1..MaxChars
Slots == 1..NumSlots
Rewards == 0..MaxReward

\* ------------------------------------------------------------------- users
\* The users table is not written by any ledger route: three users, one per
\* role.  req.user is the row authenticateToken loaded.
UserIds == {1, 2, 3}
RoleOf(u) == IF u = 1 THEN "MEMBER" ELSE IF u = 2 THEN "OFFICER" ELSE "ADMIN"

Roles == {"MEMBER", "OFFICER", "ADMIN"}

\* requireRole(allowedRoles): allowedRoles.includes(req.user.role)
requireRole(allowedRoles, role) == role \in allowedRoles

\* requireRole(['ADMIN'])
requireAdmin(role) == requireRole({"ADMIN"}, role)

\* requireRole(['OFFICER', 'ADMIN'])
requireAnyRole(u) == TRUE
requireOfficerOrAdmin(u) == requireRole({"OFFICER", "ADMIN"}, RoleOf(u))

\* mutant: every known role is at the same level
getRoleLevelFlat(role) == IF role \in Roles THEN 1 ELSE 0

\* getRoleLevel: the switch, default 0
getRoleLevel(role) ==
    IF role = "ADMIN" THEN 3
    ELSE IF role = "OFFICER" THEN 2
    ELSE IF role = "MEMBER" THEN 1
    ELSE 0

hasMinimumRole(userRole, minimumRole) ==
    getRoleLevel(userRole) >= getRoleLevel(minimumRole)

\* ------------------------------------------------------------------- state
VARIABLES
    events,       \* events table: id -> [exists, dkpReward]
    nextEventId,  \* AUTOINCREMENT of events.id
    chars,        \* characters table: id -> [exists, owner, dkp]
    nextCharId,   \* AUTOINCREMENT of characters.id
    attendance,   \* attendances table: set of <<eventId, characterId>>
    req,          \* slot -> the request handler running (or last run) there
    started,      \* number of requests started so far
    users,        \* users table: id -> role
    items,        \* items table: the ids that have a row
    wish,         \* wishes table (prisma.wish): set of <<characterId, itemId>>
    schedule      \* events table, columns start_time and end_time: id -> [startTime, endTime]

vars == <<events, nextEventId, chars, nextCharId, attendance, req, started,
          users, items, wish, schedule>>

\* the tables and columns that the ledger routes neither read nor write
otherTables == <<users, items, wish, schedule>>

NoEventRow == [exists |-> FALSE, dkpReward |-> 0]
NoSchedule == [startTime |-> 0, endTime |-> 0]
NoCharRow == [exists |-> FALSE, owner |-> 0, dkp |-> 0]
\* the value of the handler's local `event` (null when found is FALSE)
NullEvent == [found |-> FALSE, dkpReward |-> 0]

\* The ids a body can name: the ids assigned so far and the first id not
\* yet assigned, which stands for every id that has no row and never had.
KnownEvents == {e \in EventIds : e <= nextEventId}
KnownChars == {c \in CharIds : c <= nextCharId}

\* A body value of 0 stands for a missing / falsy id (`!eventId`); NotANumber
\* for a list item parseInt cannot read (isNaN).
NotANumber == -1
PairInputs == (KnownEvents \X KnownChars) \cup {<<0, 0>>}
BulkItems == KnownChars \cup {NotANumber}

\* no body of POST /api/event read yet
NoTemplate == [startTime |-> 0, endTime |-> 0, dkpReward |-> 0]
NoRule == [interval |-> 0, dayOfWeek |-> 0, occurrences |-> 0]

IdleReq ==
    [op |-> "none", pc |-> "idle", status |-> 0, user |-> 0, e |-> 0, c |-> 0,
     ev |-> NullEvent, ids |-> <<>>, i |-> 0, results |-> <<>>, errors |-> <<>>,
     mode |-> "none", amt |-> 0, cur |-> 0, seq |-> 0, dkp0 |-> 0,
     tpl |-> NoTemplate, rule |-> NoRule, gen |-> <<>>,
     role |-> "none", newRole |-> "none", target |-> 0, item |-> 0]

InFlight(r) == req[r].pc \notin {"idle", "done"}
NoneInFlight == \A r \in Slots : ~InFlight(r)

\* ---------------------------------------------------------- database layer
\* PrismaDatabase.getEventById: the row, or null
getEventById(e) ==
    IF e \in EventIds /\ events[e].exists
    THEN [found |-> TRUE, dkpReward |-> events[e].dkpReward]
    ELSE NullEvent

\* PrismaDatabase.getCharacterById: findFirst where id and userId; TRUE when a
\* row is returned
getCharacterById(c, u) ==
    c \in CharIds /\ chars[c].exists /\ chars[c].owner = u

\* mutant: the existence check never finds the row
checkAttendanceNever(e, c) == FALSE

\* PrismaDatabase.checkAttendanceExists
checkAttendanceExists(e, c) == <<e, c>> \in attendance

\* mutant: no primary key on (event_id, character_id)
addAttendanceNoUnique(e, c) ==
    /\ e \in EventIds /\ events[e].exists
    /\ c \in CharIds /\ chars[c].exists

\* prisma.attendance.create succeeds iff the primary key (event_id,
\* character_id) is free and both foreign keys reference existing rows;
\* otherwise it throws.
addAttendanceOk(e, c) ==
    /\ <<e, c>> \notin attendance
    /\ e \in EventIds /\ events[e].exists
    /\ c \in CharIds /\ chars[c].exists

\* mutant: deleting a row that is not there does not throw
removeAttendanceAlways(e, c) == TRUE

\* PrismaDatabase.removeAttendance: true when the row was deleted, false when
\* prisma.attendance.delete threw (no such row)
removeAttendanceOk(e, c) == <<e, c>> \in attendance

\* PrismaDatabase.updateCharacterDkp: prisma.character.update throws when no
\* row has the id; otherwise dkp is incremented by dkpChange
updateCharacterDkpOk(c) == c \in CharIds /\ chars[c].exists
\* mutant: the sign of the change is lost
DkpAfterUnsigned(c, dkpChange) ==
    chars[c].dkp + (IF dkpChange < 0 THEN 0 - dkpChange ELSE dkpChange)

DkpAfter(c, dkpChange) == chars[c].dkp + dkpChange

\* ON DELETE CASCADE of attendances.event_id / attendances.character_id
CascadeEvent(e) == {p \in attendance : p[1] # e}
CascadeChar(c) == {p \in attendance : p[2] # c}

\* mutant: deleting a character leaves its wishes
CascadeWishNone(c) == wish

\* ON DELETE CASCADE of wishes.character_id / wishes.item_id
CascadeWishChar(c) == {p \in wish : p[1] # c}
CascadeWishItem(i) == {p \in wish : p[2] # i}

\* ------------------------------------------------------------ slot helpers
\* res.status(code).json(...): the handler has answered
Finish(r, code) == [req[r] EXCEPT !.pc = "done", !.status = code]

\* A new request in slot r.  obs: whether the observation fields (seq: the
\* request's number, dkp0: the character's balance when the request started)
\* are recorded; they are read by the properties only, never by a handler.
NewReq(op, u, e, c, obs) ==
    [IdleReq EXCEPT !.op = op, !.user = u, !.e = e, !.c = c,
        !.seq = IF obs THEN started + 1 ELSE 0,
        !.dkp0 = IF obs /\ c \in CharIds /\ chars[c].exists THEN chars[c].dkp ELSE 0]

CanStart(r) == ~InFlight(r) /\ started < MaxRequests

\* Which slot a request runs in means nothing.  Concurrent specifications
\* start a request in the lowest slot that is not in flight; the sequential
\* one takes the slots in turn, so that the last NumSlots answers are kept.
LowestFree(r) == \A q \in Slots : q < r => InFlight(q)
InTurn(r) == r = (started % NumSlots) + 1

\* The database when the server starts: event 1 with no reward or with the
\* largest one, character 1 of the MEMBER and character 2 of the OFFICER, and
\* either no attendance yet or character 1 recorded (and credited) at event 1.
\* Event 1 lasts from hour 1 to hour 3; there is one item and no wish; the
\* three users have one role each.
Init ==
    /\ \E rw \in {0, MaxReward}, recorded \in BOOLEAN :
         /\ events = [e \in EventIds |->
                        IF e = 1 THEN [exists |-> TRUE, dkpReward |-> rw] ELSE NoEventRow]
         /\ chars = [c \in CharIds |->
                       IF c = 1 THEN [exists |-> TRUE, owner |-> 1,
                                      dkp |-> IF recorded THEN rw ELSE 0]
                       ELSE IF c = 2 THEN [exists |-> TRUE, owner |-> 2, dkp |-> 0]
                       ELSE NoCharRow]
         /\ attendance = IF recorded THEN {<<1, 1>>} ELSE {}
    /\ nextEventId = 2
    /\ nextCharId = 3
    /\ req = [r \in Slots |-> IdleReq]
    /\ started = 0
    /\ users = [u \in UserIds |-> RoleOf(u)]
    /\ items = {1}
    /\ wish = {}
    /\ schedule = [e \in EventIds |->
                     IF e = 1 THEN [startTime |-> 1, endTime |-> 3] ELSE NoSchedule]

\* ------------------------------------------------ POST /api/attendance
\* authenticateToken, validation of the body, then getEventById
StartRecord(r, callers, obs) ==
    /\ CanStart(r)
    /\ \E u \in callers, b \in PairInputs :
         LET e == b[1]
             c == b[2]
             n == NewReq("record", u, e, c, obs)
             event == getEventById(e)
         IN req' = [req EXCEPT ![r] =
                IF e = 0 \/ c = 0 THEN [n EXCEPT !.pc = "done", !.status = 400]
                ELSE IF ~event.found THEN [n EXCEPT !.pc = "done", !.status = 404]
                ELSE [n EXCEPT !.pc = "getChar", !.ev = event]]
    /\ started' = started + 1
    /\ UNCHANGED <<events, nextEventId, chars, nextCharId, attendance>>
    /\ UNCHANGED otherTables

\* getCharacterById(characterId, req.user.id) and the permission test
RecordGetChar(r) ==
    /\ req[r].op = "record" /\ req[r].pc = "getChar"
    /\ LET character == getCharacterById(req[r].c, req[r].user)
           role == RoleOf(req[r].user)
       IN req' = [req EXCEPT ![r] =
              IF ~character /\ role # "ADMIN" /\ role # "OFFICER"
              THEN Finish(r, 404)
              ELSE [req[r] EXCEPT !.pc = "check"]]
    /\ UNCHANGED <<events, nextEventId, chars, nextCharId, attendance, started>>
    /\ UNCHANGED otherTables

\* checkAttendanceExists: 409 when the row is there
RecordCheck(r) ==
    /\ req[r].op = "record" /\ req[r].pc = "check"
    /\ req' = [req EXCEPT ![r] =
              IF checkAttendanceExists(req[r].e, req[r].c)
              THEN Finish(r, 409)
              ELSE [req[r] EXCEPT !.pc = "insert"]]
    /\ UNCHANGED <<events, nextEventId, chars, nextCharId, attendance, started>>
    /\ UNCHANGED otherTables

\* addAttendance; a throw is caught by the handler's catch: 500.  After the
\* insert the handler awards DKP only if event.dkpReward > 0.
RecordInsert(r) ==
    /\ req[r].op = "record" /\ req[r].pc = "insert"
    /\ IF addAttendanceOk(req[r].e, req[r].c)
       THEN /\ attendance' = attendance \cup {<<req[r].e, req[r].c>>}
            /\ req' = [req EXCEPT ![r] =
                  IF req[r].ev.dkpReward > 0
                  THEN [req[r] EXCEPT !.pc = "credit"]
                  ELSE Finish(r, 201)]
       ELSE /\ attendance' = attendance
            /\ req' = [req EXCEPT ![r] = Finish(r, 500)]
    /\ UNCHANGED <<events, nextEventId, chars, nextCharId, started>>
    /\ UNCHANGED otherTables

\* updateCharacterDkp(characterId, event.dkpReward), then 201
RecordCredit(r) ==
    /\ req[r].op = "record" /\ req[r].pc = "credit"
    /\ IF updateCharacterDkpOk(req[r].c)
       THEN /\ chars' = [chars EXCEPT ![req[r].c].dkp =
                            DkpAfter(req[r].c, req[r].ev.dkpReward)]
            /\ req' = [req EXCEPT ![r] = Finish(r, 201)]
       ELSE /\ chars' = chars
            /\ req' = [req EXCEPT ![r] = Finish(r, 500)]
    /\ UNCHANGED <<events, nextEventId, nextCharId, attendance, started>>
    /\ UNCHANGED otherTables

\* -------------------------------------------- POST /api/attendance/bulk
\* the lists characterIds of a body: 1..MaxBulkLen items
BulkLists == UNION {[1..n -> BulkItems] : n \in 1..MaxBulkLen}
SeqBulkLists == UNION {[1..n -> BulkItems] : n \in 1..MaxSeqBulkLen}

\* the loop goes on to the next id, or the handler answers 201
BulkAdvance(q) ==
    IF q.i >= Len(q.ids)
    THEN [q EXCEPT !.pc = "done", !.status = 201]
    ELSE [q EXCEPT !.pc = "bulkCheck", !.i = q.i + 1]

\* mutant: an id that went through is reported as a failure
BulkSuccessAsFailure(q) ==
    BulkAdvance([q EXCEPT !.errors = Append(q.errors,
                               <<q.ids[q.i], "Failed to record attendance">>)])

\* mutant: a failing id ends the whole call
BulkFailureAborts(q, why) ==
    [q EXCEPT !.errors = Append(q.errors, <<q.ids[q.i], why>>),
              !.pc = "done", !.status = 500]

BulkSuccess(q) == BulkAdvance([q EXCEPT !.results = Append(q.results, q.ids[q.i])])
BulkFailure(q, why) ==
    BulkAdvance([q EXCEPT !.errors = Append(q.errors, <<q.ids[q.i], why>>)])

\* the sum of all balances
RECURSIVE SumDkp(_)
SumDkp(S) ==
    IF S = {} THEN 0
    ELSE LET c == CHOOSE x \in S : TRUE IN chars[c].dkp + SumDkp(S \ {c})

TotalDkp == SumDkp(CharIds)

\* authenticateToken, requireOfficerOrAdmin, validation, getEventById.  A call
\* that is rejected here has not looked at its list, and keeps none of it.
\* With obs, dkp0 is the sum of all balances when the call started.
StartBulk(r, callers, lists, obs) ==
    /\ CanStart(r)
    /\ \E u \in callers, e \in KnownEvents \cup {0}, ids \in lists \cup {<<>>} :
         LET n == [NewReq("bulk", u, e, 0, obs) EXCEPT
                      !.dkp0 = IF obs THEN TotalDkp ELSE 0]
             event == getEventById(e)
         IN req' = [req EXCEPT ![r] =
                IF ~requireOfficerOrAdmin(u) THEN [n EXCEPT !.pc = "done", !.status = 403]
                ELSE IF e = 0 \/ Len(ids) = 0 THEN [n EXCEPT !.pc = "done", !.status = 400]
                ELSE IF ~event.found THEN [n EXCEPT !.pc = "done", !.status = 404]
                ELSE [n EXCEPT !.pc = "bulkCheck", !.ev = event, !.ids = ids, !.i = 1]]
    /\ started' = started + 1
    /\ UNCHANGED <<events, nextEventId, chars, nextCharId, attendance>>
    /\ UNCHANGED otherTables

\* parseInt / isNaN of the current id, then checkAttendanceExists
BulkCheck(r) ==
    /\ req[r].op = "bulk" /\ req[r].pc = "bulkCheck"
    /\ LET q == req[r]
           id == q.ids[q.i]
       IN req' = [req EXCEPT ![r] =
              IF id = NotANumber THEN BulkFailure(q, "Invalid character ID")
              ELSE IF checkAttendanceExists(q.e, id)
                   THEN BulkFailure(q, "Attendance already exists")
                   ELSE [q EXCEPT !.pc = "bulkInsert"]]
    /\ UNCHANGED <<events, nextEventId, chars, nextCharId, attendance, started>>
    /\ UNCHANGED otherTables

\* addAttendance inside the per-id try: a throw becomes a failure entry
BulkInsert(r) ==
    /\ req[r].op = "bulk" /\ req[r].pc = "bulkInsert"
    /\ LET q == req[r]
           id == q.ids[q.i]
       IN IF addAttendanceOk(q.e, id)
          THEN /\ attendance' = attendance \cup {<<q.e, id>>}
               /\ req' = [req EXCEPT ![r] =
                     IF q.ev.dkpReward > 0
                     THEN [q EXCEPT !.pc = "bulkCredit"]
                     ELSE BulkSuccess(q)]
          ELSE /\ attendance' = attendance
               /\ req' = [req EXCEPT ![r] = BulkFailure(q, "Failed to record attendance")]
    /\ UNCHANGED <<events, nextEventId, chars, nextCharId, started>>
    /\ UNCHANGED otherTables

\* updateCharacterDkp inside the per-id try
BulkCredit(r) ==
    /\ req[r].op = "bulk" /\ req[r].pc = "bulkCredit"
    /\ LET q == req[r]
           id == q.ids[q.i]
       IN IF updateCharacterDkpOk(id)
          THEN /\ chars' = [chars EXCEPT ![id].dkp = DkpAfter(id, q.ev.dkpReward)]
               /\ req' = [req EXCEPT ![r] = BulkSuccess(q)]
          ELSE /\ chars' = chars
               /\ req' = [req EXCEPT ![r] = BulkFailure(q, "Failed to record attendance")]
    /\ UNCHANGED <<events, nextEventId, nextCharId, attendance, started>>
    /\ UNCHANGED otherTables

\* ---------------------------------------------- DELETE /api/attendance
\* authenticateToken, validation, getCharacterById and the permission test
StartRemove(r, callers, obs) ==
    /\ CanStart(r)
    /\ \E u \in callers, b \in PairInputs :
         LET e == b[1]
             c == b[2]
             n == NewReq("remove", u, e, c, obs)
             character == getCharacterById(c, u)
             role == RoleOf(u)
         IN req' = [req EXCEPT ![r] =
                IF e = 0 \/ c = 0 THEN [n EXCEPT !.pc = "done", !.status = 400]
                ELSE IF ~character /\ role # "ADMIN" /\ role # "OFFICER"
                     THEN [n EXCEPT !.pc = "done", !.status = 404]
                     ELSE [n EXCEPT !.pc = "check"]]
    /\ started' = started + 1
    /\ UNCHANGED <<events, nextEventId, chars, nextCharId, attendance>>
    /\ UNCHANGED otherTables

\* checkAttendanceExists: 404 when the row is not there
RemoveCheck(r) ==
    /\ req[r].op = "remove" /\ req[r].pc = "check"
    /\ req' = [req EXCEPT ![r] =
              IF ~checkAttendanceExists(req[r].e, req[r].c)
              THEN Finish(r, 404)
              ELSE [req[r] EXCEPT !.pc = "getEvent"]]
    /\ UNCHANGED <<events, nextEventId, chars, nextCharId, attendance, started>>
    /\ UNCHANGED otherTables

\* getEventById "for DKP reversal": the reward as it is now (or null)
RemoveGetEvent(r) ==
    /\ req[r].op = "remove" /\ req[r].pc = "getEvent"
    /\ req' = [req EXCEPT ![r] =
              [req[r] EXCEPT !.pc = "delete", !.ev = getEventById(req[r].e)]]
    /\ UNCHANGED <<events, nextEventId, chars, nextCharId, attendance, started>>
    /\ UNCHANGED otherTables

\* removeAttendance: false -> 500; then the reversal only if the event was
\* found and its reward is positive
RemoveDelete(r) ==
    /\ req[r].op = "remove" /\ req[r].pc = "delete"
    /\ IF removeAttendanceOk(req[r].e, req[r].c)
       THEN /\ attendance' = attendance \ {<<req[r].e, req[r].c>>}
            /\ req' = [req EXCEPT ![r] =
                  IF req[r].ev.found /\ req[r].ev.dkpReward > 0
                  THEN [req[r] EXCEPT !.pc = "debit"]
                  ELSE Finish(r, 200)]
       ELSE /\ attendance' = attendance
            /\ req' = [req EXCEPT ![r] = Finish(r, 500)]
    /\ UNCHANGED <<events, nextEventId, chars, nextCharId, started>>
    /\ UNCHANGED otherTables

\* updateCharacterDkp(characterId, -event.dkpReward), then 200
RemoveDebit(r) ==
    /\ req[r].op = "remove" /\ req[r].pc = "debit"
    /\ IF updateCharacterDkpOk(req[r].c)
       THEN /\ chars' = [chars EXCEPT ![req[r].c].dkp =
                            DkpAfter(req[r].c, 0 - req[r].ev.dkpReward)]
            /\ req' = [req EXCEPT ![r] = Finish(r, 200)]
       ELSE /\ chars' = chars
            /\ req' = [req EXCEPT ![r] = Finish(r, 500)]
    /\ UNCHANGED <<events, nextEventId, nextCharId, attendance, started>>
    /\ UNCHANGED otherTables

\* dkpReversed of the 200 answer: event?.dkpReward || 0
dkpReversed(q) == IF q.ev.found THEN q.ev.dkpReward ELSE 0

\* ------------------------------------------------------ /api/event
\* The event handlers are open to every authenticated user and never read
\* req.user: the caller is not recorded.
\* the dkpReward values of a body; one negative value for the validation
RewardInputs == Rewards \cup {0 - 1}

\* POST /api/event (no recurrence): validation, then createEvent.  The ids
\* come from AUTOINCREMENT; the model stops creating at MaxEvents.
CreateEvent(r) ==
    /\ CanStart(r)
    /\ nextEventId <= MaxEvents
    /\ \E dkp \in RewardInputs :
         LET n == [NewReq("createEvent", 0, nextEventId, 0, FALSE) EXCEPT !.amt = dkp]
         IN IF dkp < 0
            THEN /\ req' = [req EXCEPT ![r] = [n EXCEPT !.e = 0, !.pc = "done", !.status = 400]]
                 /\ UNCHANGED <<events, nextEventId>>
            ELSE /\ events' = [events EXCEPT ![nextEventId] =
                                  [exists |-> TRUE, dkpReward |-> dkp]]
                 /\ nextEventId' = nextEventId + 1
                 /\ req' = [req EXCEPT ![r] = [n EXCEPT !.pc = "done", !.status = 201]]
    /\ started' = started + 1
    /\ UNCHANGED <<chars, nextCharId, attendance>>
    /\ UNCHANGED otherTables

\* PUT /api/event/:id with a dkpReward: getEventById, then the validation
StartUpdateEvent(r) ==
    /\ CanStart(r)
    /\ \E e \in KnownEvents, dkp \in RewardInputs :
         LET n == [NewReq("updateEvent", 0, e, 0, FALSE) EXCEPT !.amt = dkp]
         IN req' = [req EXCEPT ![r] =
                IF ~getEventById(e).found THEN [n EXCEPT !.pc = "done", !.status = 404]
                ELSE IF dkp < 0 THEN [n EXCEPT !.pc = "done", !.status = 400]
                ELSE [n EXCEPT !.pc = "update"]]
    /\ started' = started + 1
    /\ UNCHANGED <<events, nextEventId, chars, nextCharId, attendance>>
    /\ UNCHANGED otherTables

\* updateEvent: prisma.event.update throws when the row is gone (500)
UpdateEvent(r) ==
    /\ req[r].op = "updateEvent" /\ req[r].pc = "update"
    /\ IF getEventById(req[r].e).found
       THEN /\ events' = [events EXCEPT ![req[r].e].dkpReward = req[r].amt]
            /\ req' = [req EXCEPT ![r] = Finish(r, 200)]
       ELSE /\ events' = events
            /\ req' = [req EXCEPT ![r] = Finish(r, 500)]
    /\ UNCHANGED <<nextEventId, chars, nextCharId, attendance, started>>
    /\ UNCHANGED otherTables

\* DELETE /api/event/:id: getEventById
StartDeleteEvent(r) ==
    /\ CanStart(r)
    /\ \E e \in KnownEvents :
         LET n == NewReq("deleteEvent", 0, e, 0, FALSE)
         IN req' = [req EXCEPT ![r] =
                IF ~getEventById(e).found THEN [n EXCEPT !.pc = "done", !.status = 404]
                ELSE [n EXCEPT !.pc = "delete"]]
    /\ started' = started + 1
    /\ UNCHANGED <<events, nextEventId, chars, nextCharId, attendance>>
    /\ UNCHANGED otherTables

\* deleteEvent: the row and, by ON DELETE CASCADE, its attendances; no dkp
\* is touched.  false (the delete threw) -> 500
DeleteEvent(r) ==
    /\ req[r].op = "deleteEvent" /\ req[r].pc = "delete"
    /\ IF getEventById(req[r].e).found
       THEN /\ events' = [events EXCEPT ![req[r].e] = NoEventRow]
            /\ attendance' = CascadeEvent(req[r].e)
            /\ req' = [req EXCEPT ![r] = Finish(r, 200)]
       ELSE /\ UNCHANGED <<events, attendance>>
            /\ req' = [req EXCEPT ![r] = Finish(r, 500)]
    /\ UNCHANGED <<nextEventId, chars, nextCharId, started>>
    /\ UNCHANGED otherTables

\* ------------------------------------- POST /api/event with a recurrence
\* A Date is a number of hours since 2025-10-01T00:00 in the server's zone,
\* whose offset is taken as constant; getTime is the number itself.
HoursPerDay == 24
DayOf(t) == t \div HoursPerDay
HourOf(t) == t % HoursPerDay

\* the first days of the months from September 2025 to May 2026
MonthStarts == {0 - 30, 0, 31, 61, 92, 123, 151, 182, 212}
MonthStartOf(d) == CHOOSE m \in MonthStarts :
                       m <= d /\ \A m2 \in MonthStarts : m2 <= d => m2 <= m

\* Date.getDay (0 = Sunday; 2025-10-01 is a Wednesday), Date.getDate (the
\* day of the month) and Date.setDate, which takes any day number and rolls
\* over into the following months
getDay(t) == (DayOf(t) + 3) % 7
getDate(t) == DayOf(t) - MonthStartOf(DayOf(t)) + 1
setDate(t, n) == (MonthStartOf(DayOf(t)) + n - 1) * HoursPerDay + HourOf(t)

\* a property the body does not carry (undefined)
Undefined == 0 - 99

\* !x, x < n and x > n of JavaScript on a number or undefined
Falsy(x) == x = Undefined \/ x = 0
Less(x, n) == x # Undefined /\ x < n
Greater(x, n) == x # Undefined /\ x > n

\* mutant: the target weekday is taken without wrapping into the next week
daysUntilTargetNoWrap(startDate, recurrence) == recurrence.dayOfWeek - getDay(startDate)

daysUntilTarget(startDate, recurrence) ==
    (recurrence.dayOfWeek - getDay(startDate) + 7) % 7

\* mutant: one turn of the loop too many
LoopIndicesOneMore(recurrence) == 0..recurrence.occurrences

\* for (let i = 0; i < recurrence.occurrences; i++)
LoopIndices(recurrence) == 0..(recurrence.occurrences - 1)

\* mutant: every occurrence one week after the one before
eventStartWeekly(firstOccurrence, i, recurrence) ==
    setDate(firstOccurrence, getDate(firstOccurrence) + i * 7)

eventStartOf(firstOccurrence, i, recurrence) ==
    setDate(firstOccurrence, getDate(firstOccurrence) + i * 7 * recurrence.interval)

\* mutant: every occurrence ends when the template ends
eventEndOfTemplate(eventData, eventStart) == eventData.endTime

\* new Date(eventStart.getTime() + duration)
eventEndOf(eventData, eventStart) ==
    eventStart + (eventData.endTime - eventData.startTime)

\* generateRecurringEvents; week stands for the title's suffix
generateRecurringEvents(eventData, recurrence) ==
    LET firstOccurrence ==
            setDate(eventData.startTime,
                    getDate(eventData.startTime)
                        + daysUntilTarget(eventData.startTime, recurrence))
        indices == LoopIndices(recurrence)
    IN [k \in 1..Cardinality(indices) |->
          LET i == k - 1
              eventStart == eventStartOf(firstOccurrence, i, recurrence)
          IN [week |-> i + 1,
              startTime |-> eventStart,
              endTime |-> eventEndOf(eventData, eventStart),
              dkpReward |-> eventData.dkpReward]]

\* the limits of the recurrence validation
OccurrencesLimit == 52
IntervalLimit == 4

\* mutant: the number of occurrences is not validated
occurrencesAccepted(recurrence) == FALSE

\* !recurrence.occurrences || recurrence.occurrences < 1 || ... > 52
occurrencesRejected(recurrence) ==
    \/ Falsy(recurrence.occurrences)
    \/ Less(recurrence.occurrences, 1)
    \/ Greater(recurrence.occurrences, OccurrencesLimit)

\* recurrence.interval < 1 || recurrence.interval > 4
intervalRejected(recurrence) ==
    Less(recurrence.interval, 1) \/ Greater(recurrence.interval, IntervalLimit)

dayOfWeekRejected(recurrence) ==
    Less(recurrence.dayOfWeek, 0) \/ Greater(recurrence.dayOfWeek, 6)

\* the validation of the body, in the handler's order: 400 or 0 (passed)
SeriesValidation(eventData, recurrence) ==
    IF eventData.startTime >= eventData.endTime THEN 400
    ELSE IF eventData.dkpReward < 0 THEN 400
    ELSE IF occurrencesRejected(recurrence) THEN 400
    ELSE IF intervalRejected(recurrence) THEN 400
    ELSE IF dayOfWeekRejected(recurrence) THEN 400
    ELSE 0

\* the rule handed to generateRecurringEvents: interval: recurrence.interval || 1
RuleOf(recurrence) ==
    [recurrence EXCEPT !.interval = IF Falsy(@) THEN 1 ELSE @]

\* The bodies: a template that starts on Monday 2025-10-06 at 20:00 or on
\* Wednesday 2025-10-29 at 22:00 and lasts 0 or 3 hours, and a weekly rule.
StartInputs == {5 * HoursPerDay + 20, 28 * HoursPerDay + 22}
DurationInputs == {0, 3}
TemplateInputs ==
    {[startTime |-> t, endTime |-> t + d, dkpReward |-> w] :
        t \in StartInputs, d \in DurationInputs, w \in RewardInputs}
IntervalInputs == {Undefined, 0, 1, 2, IntervalLimit, IntervalLimit + 1}
DayInputs == 0..7
OccurrenceInputs == {Undefined, 0, OccurrencesLimit + 1} \cup 1..MaxOccurrences
RuleInputs ==
    [interval : IntervalInputs, dayOfWeek : DayInputs, occurrences : OccurrenceInputs]

\* POST /api/event with recurrence.type = 'weekly': the validation and
\* generateRecurringEvents, up to the first createEvent.  The model starts a
\* series only when MaxEvents leaves room for all of it.
StartSeries(r, templates, rules) ==
    /\ CanStart(r)
    /\ \E eventData \in templates, recurrence \in rules :
         LET n == [NewReq("series", 0, 0, 0, FALSE) EXCEPT
                      !.tpl = eventData, !.rule = recurrence]
             recurringEvents == generateRecurringEvents(eventData, RuleOf(recurrence))
         IN IF SeriesValidation(eventData, recurrence) # 0
            THEN req' = [req EXCEPT ![r] = [n EXCEPT !.pc = "done", !.status = 400]]
            ELSE /\ nextEventId + Len(recurringEvents) - 1 <= MaxEvents
                 /\ req' = [req EXCEPT ![r] =
                        [n EXCEPT !.pc = "createSeries", !.gen = recurringEvents, !.i = 1]]
    /\ started' = started + 1
    /\ UNCHANGED <<events, nextEventId, chars, nextCharId, attendance>>
    /\ UNCHANGED otherTables

\* One turn of `for (const eventToCreate of recurringEvents)`: createEvent
\* inserts the row, or throws (a failure of the storage), which the
\* handler's only catch turns into 500.  After the last turn: 201.
SeriesCreate(r) ==
    /\ req[r].op = "series" /\ req[r].pc = "createSeries"
    /\ nextEventId <= MaxEvents
    /\ LET q == req[r]
           eventToCreate == q.gen[q.i]
       IN \E created \in BOOLEAN :
            IF created
            THEN /\ events' = [events EXCEPT ![nextEventId] =
                        [exists |-> TRUE, dkpReward |-> eventToCreate.dkpReward]]
                 /\ schedule' = [schedule EXCEPT ![nextEventId] =
                        [startTime |-> eventToCreate.startTime,
                         endTime |-> eventToCreate.endTime]]
                 /\ nextEventId' = nextEventId + 1
                 /\ req' = [req EXCEPT ![r] =
                        LET q2 == [q EXCEPT !.results = Append(q.results, nextEventId)]
                        IN IF q.i >= Len(q.gen)
                           THEN [q2 EXCEPT !.pc = "done", !.status = 201]
                           ELSE [q2 EXCEPT !.i = q.i + 1]]
            ELSE /\ UNCHANGED <<events, nextEventId, schedule>>
                 /\ req' = [req EXCEPT ![r] = Finish(r, 500)]
    /\ UNCHANGED <<chars, nextCharId, attendance, started>>
    /\ UNCHANGED <<users, items, wish>>

\* ------------------------------------ /api/event with the times of the body
\* POST /api/event and PUT /api/event/:id with startTime and endTime: a time of the body is an
\* hour, or Undefined when the body has none.  tpl holds the body of a POST
\* and the updateData of a PUT (Undefined: the field is not written).
TimeInputs == {Undefined, 2, 4}

\* finalStartTime >= finalEndTime
timesRejected(finalStartTime, finalEndTime) == finalStartTime >= finalEndTime

\* updateData.x || existingEvent.x
FinalOf(updated, existing) == IF updated = Undefined THEN existing ELSE updated

\* POST /api/event: the validation of the times and of the reward, then
\* createEvent
CreateEventAt(r) ==
    /\ CanStart(r)
    /\ nextEventId <= MaxEvents
    /\ \E startTime \in TimeInputs, endTime \in TimeInputs, dkp \in RewardInputs :
         LET eventData == [startTime |-> startTime, endTime |-> endTime, dkpReward |-> dkp]
             n == [NewReq("createEvent", 0, nextEventId, 0, FALSE) EXCEPT !.tpl = eventData]
         IN IF \/ startTime = Undefined \/ endTime = Undefined
               \/ startTime >= endTime
               \/ dkp < 0
            THEN /\ req' = [req EXCEPT ![r] = [n EXCEPT !.e = 0, !.pc = "done", !.status = 400]]
                 /\ UNCHANGED <<events, nextEventId, schedule>>
            ELSE /\ events' = [events EXCEPT ![nextEventId] =
                                  [exists |-> TRUE, dkpReward |-> dkp]]
                 /\ schedule' = [schedule EXCEPT ![nextEventId] =
                                    [startTime |-> startTime, endTime |-> endTime]]
                 /\ nextEventId' = nextEventId + 1
                 /\ req' = [req EXCEPT ![r] = [n EXCEPT !.pc = "done", !.status = 201]]
    /\ started' = started + 1
    /\ UNCHANGED <<chars, nextCharId, attendance>>
    /\ UNCHANGED <<users, items, wish>>

\* PUT /api/event/:id: getEventById, then the validation against the row
\* that call returned (existingEvent)
StartUpdateEventAt(r) ==
    /\ CanStart(r)
    /\ \E e \in KnownEvents, startTime \in TimeInputs, endTime \in TimeInputs,
          dkp \in RewardInputs \cup {Undefined} :
         LET updateData == [startTime |-> startTime, endTime |-> endTime, dkpReward |-> dkp]
             n == [NewReq("updateEvent", 0, e, 0, FALSE) EXCEPT !.tpl = updateData]
             existingEvent == schedule[e]
         IN req' = [req EXCEPT ![r] =
                IF ~getEventById(e).found
                THEN [n EXCEPT !.tpl = NoTemplate, !.pc = "done", !.status = 404]
                ELSE IF timesRejected(FinalOf(startTime, existingEvent.startTime),
                                      FinalOf(endTime, existingEvent.endTime))
                     THEN [n EXCEPT !.pc = "done", !.status = 400]
                ELSE IF dkp # Undefined /\ dkp < 0 THEN [n EXCEPT !.pc = "done", !.status = 400]
                ELSE [n EXCEPT !.pc = "updateAt"]]
    /\ started' = started + 1
    /\ UNCHANGED <<events, nextEventId, chars, nextCharId, attendance>>
    /\ UNCHANGED otherTables

\* updateEvent(eventId, updateData): the fields of updateData are written;
\* prisma.event.update throws when the row is gone (500)
UpdateEventAt(r) ==
    /\ req[r].op = "updateEvent" /\ req[r].pc = "updateAt"
    /\ LET e == req[r].e
           updateData == req[r].tpl
       IN IF getEventById(e).found
          THEN /\ events' = [events EXCEPT ![e].dkpReward =
                                 FinalOf(updateData.dkpReward, events[e].dkpReward)]
               /\ schedule' = [schedule EXCEPT ![e] =
                                 [startTime |-> FinalOf(updateData.startTime, schedule[e].startTime),
                                  endTime |-> FinalOf(updateData.endTime, schedule[e].endTime)]]
               /\ req' = [req EXCEPT ![r] = Finish(r, 200)]
          ELSE /\ UNCHANGED <<events, schedule>>
               /\ req' = [req EXCEPT ![r] = Finish(r, 500)]
    /\ UNCHANGED <<nextEventId, chars, nextCharId, attendance, started>>
    /\ UNCHANGED <<users, items, wish>>

\* -------------------------------------------------- /api/character
\* POST /api/character: createCharacter with dkp: dkp || 0, for req.user
CreateCharacter(r, callers, dkpInputs) ==
    /\ CanStart(r)
    /\ nextCharId <= MaxChars
    /\ \E u \in callers, dkp \in dkpInputs :
         /\ chars' = [chars EXCEPT ![nextCharId] =
                         [exists |-> TRUE, owner |-> u, dkp |-> dkp]]
         /\ req' = [req EXCEPT ![r] =
               [NewReq("createCharacter", u, 0, nextCharId, FALSE) EXCEPT
                    !.amt = dkp, !.pc = "done", !.status = 201]]
    /\ nextCharId' = nextCharId + 1
    /\ started' = started + 1
    /\ UNCHANGED <<events, nextEventId, attendance>>
    /\ UNCHANGED otherTables

\* DELETE /api/character/:id: deleteCharacter (deleteMany where id and
\* userId), the attendances and the wishes of the character go by ON DELETE
\* CASCADE
DeleteCharacter(r, callers) ==
    /\ CanStart(r)
    /\ \E u \in callers, c \in KnownChars :
         LET n == NewReq("deleteCharacter", u, 0, c, FALSE)
         IN IF getCharacterById(c, u)
            THEN /\ chars' = [chars EXCEPT ![c] = NoCharRow]
                 /\ attendance' = CascadeChar(c)
                 /\ wish' = CascadeWishChar(c)
                 /\ req' = [req EXCEPT ![r] = [n EXCEPT !.pc = "done", !.status = 200]]
            ELSE /\ UNCHANGED <<chars, attendance, wish>>
                 /\ req' = [req EXCEPT ![r] = [n EXCEPT !.pc = "done", !.status = 404]]
    /\ started' = started + 1
    /\ UNCHANGED <<events, nextEventId, nextCharId>>
    /\ UNCHANGED <<users, items, schedule>>

\* PUT /api/character/:id/dkp: the new balance from the balance read before
newDkp(operation, current, dkp) ==
    IF operation = "add" THEN current + dkp
    ELSE IF operation = "subtract" THEN (IF current - dkp > 0 THEN current - dkp ELSE 0)
    ELSE dkp

DkpOperations == {"add", "subtract", "set"}
DkpInputs == {0 - 1, 1, 2}

\* getCharacterById(characterId, req.user.id): 404, or the balance is read
StartAdjust(r) ==
    /\ CanStart(r)
    /\ \E u \in UserIds, c \in KnownChars, operation \in DkpOperations, dkp \in DkpInputs :
         LET n == [NewReq("adjust", u, 0, c, FALSE) EXCEPT !.mode = operation, !.amt = dkp]
         IN req' = [req EXCEPT ![r] =
                IF ~getCharacterById(c, u) THEN [n EXCEPT !.pc = "done", !.status = 404]
                ELSE [n EXCEPT !.pc = "update", !.cur = chars[c].dkp]]
    /\ started' = started + 1
    /\ UNCHANGED <<events, nextEventId, chars, nextCharId, attendance>>
    /\ UNCHANGED otherTables

\* updateCharacter(characterId, req.user.id, {dkp: newDkp}): updateMany writes
\* the absolute value when the row is still there; 200 either way
Adjust(r) ==
    /\ req[r].op = "adjust" /\ req[r].pc = "update"
    /\ chars' = IF getCharacterById(req[r].c, req[r].user)
                THEN [chars EXCEPT ![req[r].c].dkp =
                         newDkp(req[r].mode, req[r].cur, req[r].amt)]
                ELSE chars
    /\ req' = [req EXCEPT ![r] = Finish(r, 200)]
    /\ UNCHANGED <<events, nextEventId, nextCharId, attendance, started>>
    /\ UNCHANGED otherTables

\* ---------------------------------------------- GET /api/wish/item/:itemId
\* The answer depends on columns the tables of this model do not keep (the
\* item's minDkpCost, the character's active): what getItemById and
\* getItemWishes return is taken from all the tables can hold, for any
\* number of characters up to MaxWishes.  A wish row comes with its character (include: character); the
\* primary key (character_id, item_id) lets a character wish an item once.
\* The request keeps the item's minDkpCost in amt, the rows in ids, the
\* `wishes` of the answer in results and `eligibleWishes` in cur.
ActiveValues == {"ACTIVE", "NOT_ACTIVE"}
CostInputs == 1..MaxReward
WishingChars ==
    {ids \in UNION {[1..n -> CharIds] : n \in 0..MaxWishes} :
        \A j, k \in 1..Len(ids) : j # k => ids[j] # ids[k]}
WishRows(ids) ==
    {[k \in 1..Len(ids) |-> [id |-> ids[k], dkp |-> dkps[k], active |-> actives[k]]] :
        dkps \in [1..Len(ids) -> Rewards], actives \in [1..Len(ids) -> ActiveValues]}

\* mutant: the comparator of an ascending sort
compareAscending(a, b) == a.dkp - b.dkp

\* (a, b) => b.character.dkp - a.character.dkp
compare(a, b) == b.dkp - a.dkp

\* Array.prototype.sort, which is stable: a row goes behind the rows that
\* the comparator does not put after it
RECURSIVE sort(_)
sort(rows) ==
    IF rows = <<>> THEN <<>>
    ELSE LET n == Len(rows)
             x == rows[n]
             rest == sort(SubSeq(rows, 1, n - 1))
             p == Cardinality({k \in 1..Len(rest) : compare(rest[k], x) <= 0})
         IN SubSeq(rest, 1, p) \o <<x>> \o SubSeq(rest, p + 1, Len(rest))

\* sortedWishes.map((wish, index) => ...)
WishEntries(sortedWishes, minDkpCost) ==
    [index \in 1..Len(sortedWishes) |->
        LET character == sortedWishes[index]
        IN [priority |-> index,
            id |-> character.id,
            dkp |-> character.dkp,
            active |-> character.active,
            canAfford |-> character.dkp >= minDkpCost]]

\* wishes.filter(active === 'ACTIVE' && dkp >= item.minDkpCost).length
eligibleWishes(wishes, minDkpCost) ==
    Cardinality({k \in 1..Len(wishes) :
                    wishes[k].active = "ACTIVE" /\ wishes[k].dkp >= minDkpCost})

\* parseInt of the path parameter, then getItemById
StartRank(r) ==
    /\ CanStart(r)
    /\ \E itemId \in {NotANumber, 1}, found \in BOOLEAN, minDkpCost \in CostInputs :
         LET n == NewReq("rank", 0, 0, 0, FALSE)
         IN req' = [req EXCEPT ![r] =
                IF itemId = NotANumber THEN [n EXCEPT !.pc = "done", !.status = 400]
                ELSE IF ~found THEN [n EXCEPT !.e = itemId, !.pc = "done", !.status = 404]
                ELSE [n EXCEPT !.e = itemId, !.amt = minDkpCost, !.pc = "getWishes"]]
    /\ started' = started + 1
    /\ UNCHANGED <<events, nextEventId, chars, nextCharId, attendance>>
    /\ UNCHANGED otherTables

\* getItemWishes, the sort and the answer
RankWishes(r) ==
    /\ req[r].op = "rank" /\ req[r].pc = "getWishes"
    /\ \E ids \in WishingChars : \E wishes \in WishRows(ids) :
         LET sortedWishes == sort(wishes)
         IN req' = [req EXCEPT ![r] =
                [req[r] EXCEPT !.ids = wishes,
                               !.results = WishEntries(sortedWishes, req[r].amt),
                               !.cur = eligibleWishes(sortedWishes, req[r].amt),
                               !.pc = "done", !.status = 200]]
    /\ UNCHANGED <<events, nextEventId, chars, nextCharId, attendance, started>>
    /\ UNCHANGED otherTables

\* ------------------------------------------------- POST /api/wish
\* Item 1 has a row when the server starts; item 2 stands for every id
\* without one.  Every character of the model is ACTIVE (the default of the
\* column), so the test of character.active never answers.
ItemIds == {1, 2}

\* PrismaDatabase.getItemById: TRUE when a row is returned
getItemById(i) == i \in items

\* PrismaDatabase.checkWishExists
checkWishExists(c, i) == <<c, i>> \in wish

\* prisma.wish.create succeeds iff the primary key (character_id, item_id)
\* is free and both foreign keys reference existing rows; otherwise it throws
createWishOk(c, i) ==
    /\ <<c, i>> \notin wish
    /\ c \in CharIds /\ chars[c].exists
    /\ i \in items

\* validation of the body, then getCharacterById(characterId, req.user.id)
StartWish(r, callers) ==
    /\ CanStart(r)
    /\ \E u \in callers, c \in KnownChars \cup {0}, i \in ItemIds :
         LET n == [NewReq("wish", u, 0, c, FALSE) EXCEPT !.item = i]
         IN req' = [req EXCEPT ![r] =
                IF c = 0 THEN [n EXCEPT !.item = 0, !.pc = "done", !.status = 400]
                ELSE IF ~getCharacterById(c, u) THEN [n EXCEPT !.pc = "done", !.status = 404]
                ELSE [n EXCEPT !.pc = "getItem"]]
    /\ started' = started + 1
    /\ UNCHANGED <<events, nextEventId, chars, nextCharId, attendance>>
    /\ UNCHANGED otherTables

\* getItemById: 404 when the item has no row
WishGetItem(r) ==
    /\ req[r].op = "wish" /\ req[r].pc = "getItem"
    /\ req' = [req EXCEPT ![r] =
              IF ~getItemById(req[r].item) THEN Finish(r, 404)
              ELSE [req[r] EXCEPT !.pc = "checkWish"]]
    /\ UNCHANGED <<events, nextEventId, chars, nextCharId, attendance, started>>
    /\ UNCHANGED otherTables

\* checkWishExists: 409 when the row is there
WishCheck(r) ==
    /\ req[r].op = "wish" /\ req[r].pc = "checkWish"
    /\ req' = [req EXCEPT ![r] =
              IF checkWishExists(req[r].c, req[r].item) THEN Finish(r, 409)
              ELSE [req[r] EXCEPT !.pc = "createWish"]]
    /\ UNCHANGED <<events, nextEventId, chars, nextCharId, attendance, started>>
    /\ UNCHANGED otherTables

\* createWish; a throw is caught by the handler's catch: 500
WishCreate(r) ==
    /\ req[r].op = "wish" /\ req[r].pc = "createWish"
    /\ IF createWishOk(req[r].c, req[r].item)
       THEN /\ wish' = wish \cup {<<req[r].c, req[r].item>>}
            /\ req' = [req EXCEPT ![r] = Finish(r, 201)]
       ELSE /\ wish' = wish
            /\ req' = [req EXCEPT ![r] = Finish(r, 500)]
    /\ UNCHANGED <<events, nextEventId, chars, nextCharId, attendance, started>>
    /\ UNCHANGED <<users, items, schedule>>

\* ------------------------------- DELETE /api/item/:id and /api/item/:id/force
\* mode is "plain" (requireOfficerOrAdmin) or "force" (requireAdmin);
\* getItemById: 404 when the item has no row
StartDeleteItem(r, callers) ==
    /\ CanStart(r)
    /\ \E u \in callers, i \in ItemIds, mode \in {"plain", "force"} :
         LET n == [NewReq("deleteItem", u, 0, 0, FALSE) EXCEPT !.item = i, !.mode = mode]
             allowed == IF mode = "force" THEN requireAdmin(RoleOf(u))
                        ELSE requireOfficerOrAdmin(u)
         IN req' = [req EXCEPT ![r] =
                IF ~allowed THEN [n EXCEPT !.item = 0, !.pc = "done", !.status = 403]
                ELSE IF ~getItemById(i) THEN [n EXCEPT !.pc = "done", !.status = 404]
                ELSE [n EXCEPT !.pc = "countWishes"]]
    /\ started' = started + 1
    /\ UNCHANGED <<events, nextEventId, chars, nextCharId, attendance>>
    /\ UNCHANGED otherTables

\* getItemWishesCount: the plain route answers 409 when the item is wished
CountWishes(r) ==
    /\ req[r].op = "deleteItem" /\ req[r].pc = "countWishes"
    /\ LET wishesCount == Cardinality({p \in wish : p[2] = req[r].item})
       IN req' = [req EXCEPT ![r] =
              IF req[r].mode = "plain" /\ wishesCount > 0 THEN Finish(r, 409)
              ELSE [req[r] EXCEPT !.pc = "deleteItem"]]
    /\ UNCHANGED <<events, nextEventId, chars, nextCharId, attendance, started>>
    /\ UNCHANGED otherTables

\* deleteItem: the row and, by ON DELETE CASCADE, its wishes; false (the
\* delete threw) -> 404
DeleteItem(r) ==
    /\ req[r].op = "deleteItem" /\ req[r].pc = "deleteItem"
    /\ IF getItemById(req[r].item)
       THEN /\ items' = items \ {req[r].item}
            /\ wish' = CascadeWishItem(req[r].item)
            /\ req' = [req EXCEPT ![r] = Finish(r, 200)]
       ELSE /\ UNCHANGED <<items, wish>>
            /\ req' = [req EXCEPT ![r] = Finish(r, 404)]
    /\ UNCHANGED <<events, nextEventId, chars, nextCharId, attendance, started>>
    /\ UNCHANGED <<users, schedule>>

\* ------------------------------------------------------ middleware/auth.ts
\* hasMinimumRole and the two role-list gates, applied to the role of a user
\* and a minimum role: role holds the user's role, newRole the minimum role,
\* results the three answers <<hasMinimumRole, requireOfficerOrAdmin,
\* requireAdmin>>.
Authorize(r) ==
    /\ CanStart(r)
    /\ \E u \in UserIds, minimumRole \in Roles :
         req' = [req EXCEPT ![r] =
             [NewReq("authorize", u, 0, 0, FALSE) EXCEPT
                 !.role = users[u], !.newRole = minimumRole,
                 !.results = <<hasMinimumRole(users[u], minimumRole),
                               requireOfficerOrAdmin(u),
                               requireAdmin(users[u])>>,
                 !.pc = "done", !.status = 200]]
    /\ started' = started + 1
    /\ UNCHANGED <<events, nextEventId, chars, nextCharId, attendance>>
    /\ UNCHANGED otherTables

\* --------------------------------------------------- /api/admin/users
\* authenticateToken loads req.user from the users table (getUserWithSession)
\* and is the first awaited call of every request; requireAdmin and the
\* handler's tests up to its own first database call follow without an
\* await.  role is req.user.role, target the :userId of the path, newRole
\* the role of the body or the role the switch of promoteUser / demoteUser
\* picked.
MissingUser == 4
TargetInputs == UserIds \cup {MissingUser, NotANumber}
RoleInputs == Roles \cup {"none"}

\* mutant: the handlers have no self-demotion test
selfDemotionAllowed(q, userId, role) == FALSE

\* PUT: req.user.id === userId && req.user.role === 'ADMIN' && role !== 'ADMIN'
\* POST demote: the same without the last test (role is "none" there)
selfDemotion(q, userId, role) ==
    q.user = userId /\ q.role = "ADMIN" /\ role # "ADMIN"

\* promoteUser: the switch on user.role; "none" when it returns null
promotedRole(role) ==
    IF role = "MEMBER" THEN "OFFICER" ELSE IF role = "OFFICER" THEN "ADMIN" ELSE "none"

\* demoteUser: the switch on user.role; "none" when it returns null
demotedRole(role) ==
    IF role = "ADMIN" THEN "OFFICER" ELSE IF role = "OFFICER" THEN "MEMBER" ELSE "none"

\* A request that is refused before its first database call keeps the
\* caller, the target and the role asked for.
\* PUT /api/admin/users/:userId/role
StartUpdateRole(r, callers) ==
    /\ CanStart(r)
    /\ \E u \in callers, userId \in TargetInputs, role \in RoleInputs :
         LET n == [NewReq("updateRole", u, 0, 0, FALSE) EXCEPT
                      !.role = users[u], !.target = userId, !.newRole = role]
         IN req' = [req EXCEPT ![r] =
                IF ~requireAdmin(users[u])
                THEN [n EXCEPT !.target = 0, !.newRole = "none", !.pc = "done", !.status = 403]
                ELSE IF userId = NotANumber THEN [n EXCEPT !.pc = "done", !.status = 400]
                ELSE IF role \notin Roles THEN [n EXCEPT !.pc = "done", !.status = 400]
                ELSE IF selfDemotion(n, userId, role) THEN [n EXCEPT !.pc = "done", !.status = 400]
                ELSE [n EXCEPT !.pc = "writeRole"]]
    /\ started' = started + 1
    /\ UNCHANGED <<events, nextEventId, chars, nextCharId, attendance>>
    /\ UNCHANGED otherTables

\* POST /api/admin/users/:userId/promote and .../demote
StartPromoteDemote(r, callers) ==
    /\ CanStart(r)
    /\ \E u \in callers, userId \in TargetInputs, op \in {"promote", "demote"} :
         LET n == [NewReq(op, u, 0, 0, FALSE) EXCEPT !.role = users[u], !.target = userId]
         IN req' = [req EXCEPT ![r] =
                IF ~requireAdmin(users[u])
                THEN [n EXCEPT !.target = 0, !.pc = "done", !.status = 403]
                ELSE IF userId = NotANumber THEN [n EXCEPT !.pc = "done", !.status = 400]
                ELSE IF op = "demote" /\ selfDemotion(n, userId, "none")
                     THEN [n EXCEPT !.pc = "done", !.status = 400]
                ELSE [n EXCEPT !.pc = "getUser"]]
    /\ started' = started + 1
    /\ UNCHANGED <<events, nextEventId, chars, nextCharId, attendance>>
    /\ UNCHANGED otherTables

\* promoteUser / demoteUser: getUserById and the switch; null -> 400
GetUser(r) ==
    /\ req[r].op \in {"promote", "demote"} /\ req[r].pc = "getUser"
    /\ LET q == req[r]
           newRole == IF q.target \notin UserIds THEN "none"
                      ELSE IF q.op = "promote" THEN promotedRole(users[q.target])
                      ELSE demotedRole(users[q.target])
       IN req' = [req EXCEPT ![r] =
              IF newRole = "none" THEN Finish(r, 400)
              ELSE [q EXCEPT !.newRole = newRole, !.pc = "writeRole"]]
    /\ UNCHANGED <<events, nextEventId, chars, nextCharId, attendance, started>>
    /\ UNCHANGED otherTables

\* updateUserRole: prisma.user.update, which throws when no row has the id
\* (the handler's catch: 500)
WriteRole(r) ==
    /\ req[r].op \in {"updateRole", "promote", "demote"} /\ req[r].pc = "writeRole"
    /\ IF req[r].target \in UserIds
       THEN /\ users' = [users EXCEPT ![req[r].target] = req[r].newRole]
            /\ req' = [req EXCEPT ![r] = Finish(r, 200)]
       ELSE /\ users' = users
            /\ req' = [req EXCEPT ![r] = Finish(r, 500)]
    /\ UNCHANGED <<events, nextEventId, chars, nextCharId, attendance, started>>
    /\ UNCHANGED <<items, wish, schedule>>

\* ------------------------------------------------------ specifications
RecordSteps(r) ==
    RecordGetChar(r) \/ RecordCheck(r) \/ RecordInsert(r) \/ RecordCredit(r)

BulkSteps(r) == BulkCheck(r) \/ BulkInsert(r) \/ BulkCredit(r)

RemoveSteps(r) ==
    RemoveCheck(r) \/ RemoveGetEvent(r) \/ RemoveDelete(r) \/ RemoveDebit(r)

\* the routes that write events and characters, without a DKP value
TableStarts(r, callers) ==
    \/ CreateEvent(r) \/ StartUpdateEvent(r) \/ StartDeleteEvent(r)
    \/ CreateCharacter(r, callers, {0}) \/ DeleteCharacter(r, callers)

TableSteps(r) == UpdateEvent(r) \/ DeleteEvent(r)

\* the routes that take a DKP value from the body
ManualStarts(r) == StartAdjust(r) \/ CreateCharacter(r, UserIds, {1})

\* Every route, any interleaving of the handlers' steps.
Next ==
    \E r \in Slots :
        \/ LowestFree(r) /\ ( \/ StartRecord(r, UserIds, FALSE)
                              \/ StartBulk(r, UserIds, BulkLists, FALSE)
                              \/ StartRemove(r, UserIds, FALSE)
                              \/ TableStarts(r, UserIds) \/ ManualStarts(r) )
        \/ RecordSteps(r) \/ BulkSteps(r) \/ RemoveSteps(r) \/ TableSteps(r) \/ Adjust(r)

Spec == Init /\ [][Next]_vars

\* The ADMIN owns no character and passes every test of these routes that the
\* OFFICER passes, so the specifications below that explore many requests
\* take their callers from the MEMBER and the OFFICER.
Callers == {1, 2}

\* Single record and remove, the event and character routes, one request at
\* a time: a request starts only when no other is in flight.  The
\* observation fields are recorded.
NextSeq ==
    \E r \in Slots :
        \/ NoneInFlight /\ InTurn(r)
             /\ ( \/ StartRecord(r, Callers, TRUE) \/ StartRemove(r, Callers, TRUE)
                  \/ TableStarts(r, Callers) )
        \/ RecordSteps(r) \/ RemoveSteps(r) \/ TableSteps(r)

SpecSeq == Init /\ [][NextSeq]_vars

\* Only POST /api/attendance requests, interleaved freely.
NextRecord ==
    \E r \in Slots : (LowestFree(r) /\ StartRecord(r, UserIds, FALSE)) \/ RecordSteps(r)

SpecRecord == Init /\ [][NextRecord]_vars

\* Only POST and DELETE /api/attendance requests, interleaved freely.
NextRace ==
    \E r \in Slots :
        \/ LowestFree(r) /\ (StartRecord(r, Callers, FALSE) \/ StartRemove(r, Callers, FALSE))
        \/ RecordSteps(r) \/ RemoveSteps(r)

SpecRace == Init /\ [][NextRace]_vars

\* One bulk record (by a MEMBER or by an OFFICER) against what can make one
\* of its steps fail: a single record of the same pair, the deletion of the
\* character, interleaved freely.
NoBulkYet == \A q \in Slots : req[q].op # "bulk"

NextBulk ==
    \E r \in Slots :
        \/ LowestFree(r) /\ ( \/ NoBulkYet /\ StartBulk(r, Callers, BulkLists, FALSE)
                              \/ StartRecord(r, {2}, FALSE)
                              \/ DeleteCharacter(r, Callers) )
        \/ BulkSteps(r) \/ RecordSteps(r)

SpecBulk == Init /\ [][NextBulk]_vars

\* One bulk record, one request at a time, after requests that create or
\* delete a character; nothing is started after the bulk call.  The ADMIN
\* sends the shorter lists.  The observation fields are recorded.
NextBulkSeq ==
    \E r \in Slots :
        \/ NoneInFlight /\ InTurn(r) /\ NoBulkYet
             /\ ( \/ StartBulk(r, Callers, SeqBulkLists, TRUE)
                  \/ StartBulk(r, {3}, BulkLists, TRUE)
                  \/ CreateCharacter(r, Callers, {0}) \/ DeleteCharacter(r, Callers) )
        \/ BulkSteps(r)

SpecBulkSeq == Init /\ [][NextBulkSeq]_vars

\* One POST /api/event with a weekly recurrence.
NoSeriesYet == \A q \in Slots : req[q].op # "series"

NextSeries ==
    \E r \in Slots :
        \/ LowestFree(r) /\ NoSeriesYet /\ StartSeries(r, TemplateInputs, RuleInputs)
        \/ SeriesCreate(r)

SpecSeries == Init /\ [][NextSeries]_vars

\* One GET /api/wish/item/:itemId.
NoRankYet == \A q \in Slots : req[q].op # "rank"

NextRank ==
    \E r \in Slots :
        \/ LowestFree(r) /\ NoRankYet /\ StartRank(r)
        \/ RankWishes(r)

SpecRank == Init /\ [][NextRank]_vars

\* One bulk record, one single record and one removal, all by the OFFICER,
\* interleaved freely.  Every item of the bulk list is a number.
NoneYet(op) == \A q \in Slots : req[q].op # op

NextMix ==
    \E r \in Slots :
        \/ LowestFree(r) /\ ( \/ NoneYet("bulk") /\ StartBulk(r, {2},
                                       {ids \in BulkLists : \A k \in 1..Len(ids) : ids[k] # NotANumber},
                                       FALSE)
                              \/ NoneYet("record") /\ StartRecord(r, {2}, FALSE)
                              \/ NoneYet("remove") /\ StartRemove(r, {2}, FALSE) )
        \/ BulkSteps(r) \/ RecordSteps(r) \/ RemoveSteps(r)

SpecMix == Init /\ [][NextMix]_vars

\* The same with one PUT /api/event/:id that edits a reward.
NextMixReward ==
    \/ NextMix
    \/ \E r \in Slots :
          \/ LowestFree(r) /\ NoneYet("updateEvent") /\ StartUpdateEvent(r)
          \/ UpdateEvent(r)

SpecMixReward == Init /\ [][NextMixReward]_vars

WishSteps(r) == WishGetItem(r) \/ WishCheck(r) \/ WishCreate(r)

\* Only POST /api/wish requests, by the owners of the two characters,
\* interleaved freely.
NextWish ==
    \E r \in Slots : (LowestFree(r) /\ StartWish(r, Callers)) \/ WishSteps(r)

SpecWish == Init /\ [][NextWish]_vars

\* The rows that have parents and the deletion of the parents: one request
\* of each kind, interleaved freely.  The MEMBER and the OFFICER wish, record
\* and delete their characters, the ADMIN deletes items.  The slots are
\* taken in turn, so the answer of a request stays when the next one starts.
NextCascade ==
    \E r \in Slots :
        \/ InTurn(r) /\ ( \/ NoneYet("wish") /\ StartWish(r, Callers)
                          \/ NoneYet("record") /\ StartRecord(r, Callers, FALSE)
                          \/ NoneYet("deleteCharacter") /\ DeleteCharacter(r, Callers)
                          \/ NoneYet("deleteEvent") /\ StartDeleteEvent(r)
                          \/ NoneYet("deleteItem") /\ StartDeleteItem(r, {3}) )
        \/ WishSteps(r) \/ RecordSteps(r) \/ DeleteEvent(r) \/ CountWishes(r) \/ DeleteItem(r)

SpecCascade == Init /\ [][NextCascade]_vars

\* the one recurrence sent with the times: two Tuesdays
SeriesRules == {[interval |-> 1, dayOfWeek |-> 2, occurrences |-> 2]}

\* Creation (single and recurring) and update of events with their times,
\* interleaved freely; one recurring creation.
NextTimes ==
    \E r \in Slots :
        \/ LowestFree(r) /\ ( \/ CreateEventAt(r) \/ StartUpdateEventAt(r)
                              \/ NoneYet("series") /\ StartSeries(r, TemplateInputs, SeriesRules) )
        \/ UpdateEventAt(r) \/ SeriesCreate(r)

SpecTimes == Init /\ [][NextTimes]_vars

\* One manual DKP adjustment against single records and removals,
\* interleaved freely.  The slots are taken in turn, so every answer stays.
NextManual ==
    \E r \in Slots :
        \/ InTurn(r) /\ ( \/ NoneYet("adjust") /\ StartAdjust(r)
                          \/ StartRecord(r, Callers, FALSE)
                          \/ StartRemove(r, Callers, FALSE) )
        \/ Adjust(r) \/ RecordSteps(r) \/ RemoveSteps(r)

SpecManual == Init /\ [][NextManual]_vars

\* The role checks of middleware/auth.ts on every user and minimum role.
NextAuthorize == \E r \in Slots : InTurn(r) /\ Authorize(r)

SpecAuthorize == Init /\ [][NextAuthorize]_vars

\* The users table when the role routes are explored: a MEMBER, an ADMIN,
\* and a third user of any role.
InitRoles ==
    /\ events = [e \in EventIds |-> NoEventRow]
    /\ chars = [c \in CharIds |-> NoCharRow]
    /\ attendance = {}
    /\ nextEventId = 1
    /\ nextCharId = 1
    /\ req = [r \in Slots |-> IdleReq]
    /\ started = 0
    /\ \E role \in Roles : users = [u \in UserIds |->
                                     IF u = 1 THEN "MEMBER" ELSE IF u = 2 THEN role ELSE "ADMIN"]
    /\ items = {}
    /\ wish = {}
    /\ schedule = [e \in EventIds |-> NoSchedule]

RoleSteps(r) == GetUser(r) \/ WriteRole(r)

\* The role routes, interleaved freely.
NextRoles ==
    \E r \in Slots :
        \/ LowestFree(r) /\ (StartUpdateRole(r, UserIds) \/ StartPromoteDemote(r, UserIds))
        \/ RoleSteps(r)

SpecRoles == InitRoles /\ [][NextRoles]_vars

\* ------------------------------------------------------------ properties
RECURSIVE SumRewards(_)
SumRewards(S) ==
    IF S = {} THEN 0
    ELSE LET e == CHOOSE x \in S : TRUE
         IN events[e].dkpReward + SumRewards(S \ {e})

\* the sum of the current dkpReward of the events character c attends
AttendedSum(c) == SumRewards({e \in EventIds : <<e, c>> \in attendance})

\* rewards of rows inserted whose credit is still to come / of rows deleted
\* whose debit is still to come, for character c
RECURSIVE SumPending(_, _, _)
SumPending(S, c, pcs) ==
    IF S = {} THEN 0
    ELSE LET r == CHOOSE x \in S : TRUE
             q == req[r]
             id == IF q.op = "bulk" THEN q.ids[q.i] ELSE q.c
         IN (IF q.pc \in pcs /\ id = c THEN q.ev.dkpReward ELSE 0)
            + SumPending(S \ {r}, c, pcs)

PendingCredit(c) == SumPending(Slots, c, {"credit", "bulkCredit"})
PendingDebit(c) == SumPending(Slots, c, {"debit"})

DoneWith(r, op, code) ==
    req[r].op = op /\ req[r].pc = "done" /\ req[r].status = code
SamePair(r1, r2) == req[r1].e = req[r2].e /\ req[r1].c = req[r2].c
\* r2 is the request that followed r1 with none between, and the last one
Consecutive(r1, r2) ==
    r1 # r2 /\ req[r1].seq > 0 /\ req[r2].seq = req[r1].seq + 1 /\ req[r2].seq = started
\* the caller of r passes the handler's permission test on its character
MaySee(r) ==
    RoleOf(req[r].user) # "MEMBER" \/ getCharacterById(req[r].c, req[r].user)

\* C1: recordAttendance is atomic: in every state the Attendance row of a
\* pair exists iff its credit has been applied.  With only record requests
\* running (rewards fixed, balances 0 at the start) that is: every
\* character's dkp is the sum of the rewards of the events it attends.
C1_RowIffCredit ==
    \A c \in CharIds : chars[c].exists => chars[c].dkp = AttendedSum(c)

\* C2: of two record calls for the same pair in sequence, the second (by a
\* caller that may see the character) answers 409 Conflict and changes
\* nothing: the row is there once and dkp is the balance before the first
\* call plus the reward, credited once.
C2_SecondIsConflict ==
    \A r1, r2 \in Slots :
        (/\ Consecutive(r1, r2) /\ SamePair(r1, r2)
         /\ DoneWith(r1, "record", 201)
         /\ req[r2].op = "record" /\ req[r2].pc = "done" /\ MaySee(r2))
        => /\ req[r2].status = 409
           /\ <<req[r1].e, req[r1].c>> \in attendance
           /\ chars[req[r1].c].dkp = req[r1].dkp0 + req[r1].ev.dkpReward

C2_Witness ==
    \E r1, r2 \in Slots :
        /\ Consecutive(r1, r2) /\ SamePair(r1, r2)
        /\ DoneWith(r1, "record", 201) /\ DoneWith(r2, "record", 409)
        /\ req[r1].ev.dkpReward > 0

\* C3: of the record calls for one pair whose steps interleave at most one
\* inserts the row and succeeds, and the pair is credited at most once: dkp
\* plus the credits of inserted rows still to come is the attended sum.
C3_AtMostOneSucceeds ==
    /\ \A r1, r2 \in Slots :
          (/\ r1 # r2 /\ SamePair(r1, r2)
           /\ req[r1].op = "record" /\ req[r2].op = "record"
           /\ (req[r1].pc = "credit" \/ DoneWith(r1, "record", 201)))
          => ~(req[r2].pc = "credit" \/ DoneWith(r2, "record", 201))
    /\ \A c \in CharIds :
          chars[c].exists => chars[c].dkp + PendingCredit(c) = AttendedSum(c)

\* both calls passed the existence check; one inserted, the other lost
C3_Witness ==
    \E r1, r2 \in Slots :
        /\ r1 # r2 /\ SamePair(r1, r2)
        /\ DoneWith(r1, "record", 201) /\ DoneWith(r2, "record", 500)
        /\ req[r1].ev.dkpReward > 0
        /\ chars[req[r1].c].dkp = req[r1].ev.dkpReward

\* C4: when no request is in flight, every character's dkp is the sum of
\* the current dkpReward of the events it attends (no manual adjustment is
\* part of the specification).
C4_DkpIsAttendedSum ==
    NoneInFlight =>
        \A c \in CharIds : chars[c].exists => chars[c].dkp = AttendedSum(c)

\* C5: a successful record followed by a successful remove of the same pair
\* leaves dkp at its value before the record, and no row for the pair.
C5_RecordRemoveRoundTrip ==
    \A r1, r2 \in Slots :
        (/\ Consecutive(r1, r2) /\ SamePair(r1, r2)
         /\ DoneWith(r1, "record", 201) /\ DoneWith(r2, "remove", 200))
        => /\ chars[req[r1].c].dkp = req[r1].dkp0
           /\ <<req[r1].e, req[r1].c>> \notin attendance

C5_Witness ==
    \E r1, r2 \in Slots :
        /\ Consecutive(r1, r2) /\ SamePair(r1, r2)
        /\ DoneWith(r1, "record", 201) /\ DoneWith(r2, "remove", 200)
        /\ req[r1].ev.dkpReward > 0 /\ req[r2].ev.dkpReward = req[r1].ev.dkpReward

\* C6: no character ever has a negative dkp.
C6_DkpNonNegative == \A c \in CharIds : chars[c].dkp >= 0

\* C7: a record call whose event or character does not exist (any caller),
\* or whose character is another user's (MEMBER caller), answers 404 and
\* inserts no row.
C7_MissingIsNotFound ==
    \A r \in Slots :
        (/\ req[r].op = "record" /\ req[r].pc = "done" /\ req[r].seq = started
         /\ req[r].e \in EventIds /\ req[r].c \in CharIds
         /\ \/ ~events[req[r].e].exists
            \/ ~chars[req[r].c].exists
            \/ ~MaySee(r))
        => /\ req[r].status = 404
           /\ <<req[r].e, req[r].c>> \notin attendance

C9_RemoveAtomic ==
    \A r \in Slots :
        (req[r].op = "remove" /\ req[r].pc \in {"debit", "done"}
            /\ req[r].status \notin {400, 404, 500}
            /\ req[r].ev.found /\ req[r].ev.dkpReward > 0)
        => DoneWith(r, "remove", 200)

\* the number of times v occurs in sequence s / in the ids of the failures
Count(s, v) == Cardinality({k \in 1..Len(s) : s[k] = v})
CountFailed(s, v) == Cardinality({k \in 1..Len(s) : s[k][1] = v})

\* C10: a bulk call that got to its loop never ends in an error of the
\* whole call: it handles one id after the other, each id ending in exactly
\* one of the two lists, and answers 201 with successes + failures = the
\* length of the input.
C10_BulkPerItem ==
    \A r \in Slots :
        req[r].op = "bulk" =>
            LET q == req[r] IN
            /\ q.pc = "done" => q.status \in {201, 400, 403, 404}
            /\ q.pc # "done" =>
                  /\ q.i \in 1..Len(q.ids)
                  /\ Len(q.results) + Len(q.errors) = q.i - 1
            /\ q.pc = "done" /\ q.status = 201 =>
                  /\ Len(q.results) + Len(q.errors) = Len(q.ids)
                  /\ \A v \in BulkItems :
                        Count(q.results, v) + CountFailed(q.errors, v) = Count(q.ids, v)

\* the first id failed at the insert, the second was recorded all the same
C10_Witness ==
    \E r \in Slots :
        /\ DoneWith(r, "bulk", 201) /\ Len(req[r].ids) = 2
        /\ req[r].errors = <<<<req[r].ids[1], "Failed to record attendance">>>>
        /\ req[r].results = <<req[r].ids[2]>>

\* the bulk call in slot r is the latest request and every id of its list
\* is the id of an existing character
BulkOverExisting(r) ==
    /\ req[r].op = "bulk" /\ req[r].seq > 0 /\ req[r].seq = started
    /\ Len(req[r].ids) > 0
    /\ \A k \in 1..Len(req[r].ids) :
          req[r].ids[k] \in CharIds /\ chars[req[r].ids[k]].exists

\* one step of such a call: the id whose turn it is fails iff its row is
\* there when the turn starts, a failure changes no balance and no row, a
\* success has inserted the row and raised that balance, and no other, by
\* the reward
C11_Step ==
    \A r \in Slots :
        BulkOverExisting(r) /\ InFlight(r) =>
            LET q == req[r]
                id == q.ids[q.i]
                failed == Len(req'[r].errors) > Len(q.errors)
                succeeded == Len(req'[r].results) > Len(q.results)
            IN /\ q.pc = "bulkCheck" => (failed <=> <<q.e, id>> \in attendance)
               /\ failed => q.pc = "bulkCheck" /\ chars' = chars /\ attendance' = attendance
               /\ q.pc = "bulkInsert" =>
                     <<q.e, id>> \notin attendance /\ <<q.e, id>> \in attendance'
               /\ succeeded =>
                     /\ req'[r].results = Append(q.results, id)
                     /\ <<q.e, id>> \in attendance'
                     /\ q.pc = "bulkInsert" => q.ev.dkpReward = 0 /\ chars' = chars
                     /\ q.pc = "bulkCredit" =>
                           chars' = [chars EXCEPT ![id].dkp = @ + q.ev.dkpReward]

\* between two ids and at the end: the balances have risen, in total, by
\* the number of successes times the reward, every success has its row and
\* every failure is a row that was there already
C11_Totals ==
    \A r \in Slots :
        BulkOverExisting(r) /\ req[r].pc \in {"bulkCheck", "done"} =>
            LET q == req[r] IN
            /\ TotalDkp = q.dkp0 + Len(q.results) * q.ev.dkpReward
            /\ \A k \in 1..Len(q.results) : <<q.e, q.results[k]>> \in attendance
            /\ \A k \in 1..Len(q.errors) :
                  q.errors[k] = <<q.errors[k][1], "Attendance already exists">>
            /\ q.pc = "done" => Len(q.results) + Len(q.errors) = Len(q.ids)

\* C11: a bulk call over existing characters, with no other request running:
\* the successes are exactly the ids without an Attendance row when their
\* turn came, each success raises that character's dkp by the event's
\* reward, a failure changes no dkp, and the total credited is the number
\* of successes times the reward.
C11_BulkCredits == [][C11_Step]_vars /\ []C11_Totals

\* three different characters, one of them attending already: two
\* successes, one failure, twice the reward credited
C11_Witness ==
    \E r \in Slots :
        /\ BulkOverExisting(r) /\ DoneWith(r, "bulk", 201)
        /\ Len(req[r].ids) = 3 /\ Cardinality({req[r].ids[k] : k \in 1..3}) = 3
        /\ Len(req[r].results) = 2 /\ Len(req[r].errors) = 1
        /\ req[r].ev.dkpReward > 0
        /\ TotalDkp = req[r].dkp0 + 2 * req[r].ev.dkpReward

\* a step that starts a bulk call of a MEMBER answers 403 at once and
\* writes nothing; a step of a bulk call that writes a row or a balance
\* belongs to a call of an OFFICER or an ADMIN
C12_Step ==
    \A r \in Slots :
        /\ ( /\ started' = started + 1 /\ req'[r] # req[r] /\ req'[r].op = "bulk"
             /\ RoleOf(req'[r].user) = "MEMBER" ) =>
               /\ req'[r].pc = "done" /\ req'[r].status = 403
               /\ attendance' = attendance /\ chars' = chars
        /\ ( /\ req[r].op = "bulk" /\ InFlight(r) /\ req'[r] # req[r]
             /\ (attendance' # attendance \/ chars' # chars) ) =>
               RoleOf(req[r].user) \in {"OFFICER", "ADMIN"}

\* a bulk call of a MEMBER is never past its start and reports no success
C12_Rejected ==
    \A r \in Slots :
        req[r].op = "bulk" /\ RoleOf(req[r].user) = "MEMBER" =>
            /\ req[r].pc = "done" /\ req[r].status = 403
            /\ req[r].results = <<>> /\ req[r].errors = <<>>
            /\ TotalDkp = req[r].dkp0

\* C12: the bulk record is privileged: the call of a MEMBER is answered
\* Forbidden (403) before anything is processed, no Attendance row is
\* inserted and no dkp changes; only the calls of an OFFICER or an ADMIN
\* insert rows and credit.
C12_BulkPrivileged == [][C12_Step]_vars /\ []C12_Rejected

\* a MEMBER's bulk call for an existing event has been answered 403
C12_Witness ==
    \E r \in Slots :
        /\ DoneWith(r, "bulk", 403) /\ RoleOf(req[r].user) = "MEMBER"
        /\ getEventById(req[r].e).found

\* the request in slot r is a series whose rule and template are valid: it
\* passed the validation and holds what generateRecurringEvents returned
ValidRule(rule) ==
    /\ rule.interval \in 1..IntervalLimit
    /\ rule.dayOfWeek \in 0..6
    /\ rule.occurrences \in 1..OccurrencesLimit
ValidTemplate(tpl) == tpl.endTime > tpl.startTime /\ tpl.dkpReward >= 0
Generated(r) ==
    req[r].op = "series" /\ ValidRule(req[r].rule) /\ ValidTemplate(req[r].tpl)

\* C13: for a valid rule and a template with end > start, generate returns
\* a sequence of exactly `occurrences` event definitions, in the order of
\* their weeks.
C13_ExactlyOccurrences ==
    \A r \in Slots :
        Generated(r) =>
            /\ req[r].status # 400
            /\ Len(req[r].gen) = req[r].rule.occurrences
            /\ \A k \in 1..Len(req[r].gen) : req[r].gen[k].week = k

\* a series of the largest number of occurrences has been generated
C13_Witness ==
    \E r \in Slots :
        Generated(r) /\ req[r].rule.occurrences = MaxOccurrences
                     /\ Len(req[r].gen) = MaxOccurrences

\* C14: occurrence i (from 0) of a generated series starts i * interval * 7
\* days after occurrence 0: each occurrence starts exactly interval * 7 days
\* after the one before it, and the starts increase strictly.
C14_WeeklySpacing ==
    \A r \in Slots :
        Generated(r) =>
            LET gen == req[r].gen
                step == req[r].rule.interval * 7 * HoursPerDay
            IN \A k \in 1..Len(gen) :
                  /\ gen[k].startTime = gen[1].startTime + (k - 1) * step
                  /\ k > 1 => /\ gen[k].startTime - gen[k - 1].startTime = step
                              /\ gen[k].startTime > gen[k - 1].startTime

\* three occurrences two weeks apart, the last one in a later month than
\* the first
C14_Witness ==
    \E r \in Slots :
        /\ Generated(r) /\ req[r].rule.interval = 2 /\ Len(req[r].gen) = 3
        /\ MonthStartOf(DayOf(req[r].gen[3].startTime))
               > MonthStartOf(DayOf(req[r].gen[1].startTime))
        /\ req[r].gen[3].startTime = req[r].gen[1].startTime + 28 * HoursPerDay

\* C15: every generated definition lasts as long as the template (end -
\* start is the template's end - start), so it starts before it ends, and
\* carries the template's dkpReward.
C15_DurationAndReward ==
    \A r \in Slots :
        Generated(r) =>
            \A k \in 1..Len(req[r].gen) :
                LET d == req[r].gen[k] IN
                /\ d.endTime - d.startTime = req[r].tpl.endTime - req[r].tpl.startTime
                /\ d.startTime < d.endTime
                /\ d.dkpReward = req[r].tpl.dkpReward

\* a later occurrence of a rewarded template that ends after midnight
C15_Witness ==
    \E r \in Slots :
        /\ Generated(r) /\ Len(req[r].gen) >= 2 /\ req[r].tpl.dkpReward > 0
        /\ DayOf(req[r].gen[2].endTime) > DayOf(req[r].gen[2].startTime)
        /\ req[r].gen[2].endTime - req[r].gen[2].startTime = 3

\* C16: occurrence 0 starts on the first day on or after the template's
\* start whose weekday is rule.dayOfWeek: the template's start moved forward
\* by (dayOfWeek - weekday of the start) mod 7 days, between 0 and 6, at the
\* same time of day; with dayOfWeek the start's own weekday it is the
\* template's start.
C16_FirstOccurrence ==
    \A r \in Slots :
        Generated(r) =>
            LET start == req[r].tpl.startTime
                first == req[r].gen[1].startTime
                shift == (req[r].rule.dayOfWeek - getDay(start)) % 7
            IN /\ shift \in 0..6
               /\ first = start + shift * HoursPerDay
               /\ getDay(first) = req[r].rule.dayOfWeek
               /\ HourOf(first) = HourOf(start)
               /\ \A t \in start..(first - 1) :
                     HourOf(t) = HourOf(start) => getDay(t) # req[r].rule.dayOfWeek
               /\ req[r].rule.dayOfWeek = getDay(start) => first = start

\* the template of Monday 2025-10-06, 20:00 to 23:00, with dayOfWeek 2,
\* interval 1, occurrences 3: the starts are 2025-10-07, -14 and -21
C16_Witness ==
    \E r \in Slots :
        /\ Generated(r)
        /\ req[r].tpl.startTime = 5 * HoursPerDay + 20 /\ getDay(req[r].tpl.startTime) = 1
        /\ req[r].tpl.endTime = req[r].tpl.startTime + 3
        /\ req[r].rule = [interval |-> 1, dayOfWeek |-> 2, occurrences |-> 3]
        /\ Len(req[r].gen) = 3
        /\ \A k \in 1..3 :
              /\ req[r].gen[k].startTime = (6 + 7 * (k - 1)) * HoursPerDay + 20
              /\ getDate(req[r].gen[k].startTime) = 7 * k
              /\ req[r].gen[k].endTime = req[r].gen[k].startTime + 3

\* C17: the occurrences of a series are created independently: when the
\* creation of one fails, the occurrences after it are created all the
\* same, and the ones created before it stay.  For a series whose handler
\* has ended after a failed creation: every other occurrence has its row.
C17_FailureDoesNotBlock ==
    \A r \in Slots :
        DoneWith(r, "series", 500) =>
            /\ Len(req[r].results) = Len(req[r].gen) - 1
            /\ \A k \in 1..Len(req[r].results) : events[req[r].results[k]].exists

\* nothing of the series in slot r was generated or persisted
NothingCreated(r) ==
    /\ req[r].gen = <<>> /\ req[r].results = <<>>
    /\ nextEventId = 2 /\ \A e \in EventIds : events[e].exists <=> e = 1

\* C18 as stated: a weekly recurrence whose interval is outside 1..4 or
\* whose occurrences is outside 1..52, a missing value included, is answered
\* 400, nothing is generated and no Event is persisted.
C18_OutOfRangeOrMissingRejected ==
    \A r \in Slots :
        ( /\ req[r].op = "series"
          /\ \/ req[r].rule.interval \notin 1..IntervalLimit
             \/ req[r].rule.occurrences \notin 1..OccurrencesLimit ) =>
            DoneWith(r, "series", 400) /\ NothingCreated(r)

\* C18, amended: a weekly recurrence whose interval is given and outside
\* 1..4, or whose occurrences is missing or outside 1..52, is answered 400,
\* nothing is generated and no Event is persisted; a missing interval is not
\* an error, the series is generated with interval 1.
C18_OutOfRangeRejected ==
    \A r \in Slots :
        req[r].op = "series" =>
            /\ ( \/ ( /\ req[r].rule.interval # Undefined
                      /\ req[r].rule.interval \notin 1..IntervalLimit )
                 \/ req[r].rule.occurrences \notin 1..OccurrencesLimit ) =>
                   DoneWith(r, "series", 400) /\ NothingCreated(r)
            /\ ( /\ req[r].rule.interval = Undefined
                 /\ ValidRule([req[r].rule EXCEPT !.interval = 1])
                 /\ ValidTemplate(req[r].tpl) ) =>
                   /\ req[r].status # 400
                   /\ Len(req[r].gen) = req[r].rule.occurrences
                   /\ \A k \in 1..Len(req[r].gen) :
                         req[r].gen[k].startTime
                             = req[r].gen[1].startTime + (k - 1) * 7 * HoursPerDay

\* a body that is valid but for its interval of 5 (and one but for its
\* missing occurrences would do as well) has been answered 400
C18_Witness ==
    \E r \in Slots :
        /\ DoneWith(r, "series", 400) /\ ValidTemplate(req[r].tpl)
        /\ req[r].rule.interval = IntervalLimit + 1
        /\ ValidRule([req[r].rule EXCEPT !.interval = 1])
        /\ NothingCreated(r)

\* C19: the ranking holds every wishing character exactly once, with the
\* dkp of its row, in an order that does not increase in dkp, at the
\* priorities 1..n.
C19_RankedByDkp ==
    \A r \in Slots :
        DoneWith(r, "rank", 200) =>
            LET rows == req[r].ids
                out == req[r].results
            IN /\ Len(out) = Len(rows)
               /\ \A j \in 1..Len(rows) :
                     Cardinality({k \in 1..Len(out) :
                         /\ out[k].id = rows[j].id /\ out[k].dkp = rows[j].dkp
                         /\ out[k].active = rows[j].active}) = 1
               /\ \A k \in 1..Len(out) : out[k].priority = k
               /\ \A k \in 1..(Len(out) - 1) : out[k].dkp >= out[k + 1].dkp

\* three wishers that the table holds in increasing order of dkp come out
\* in decreasing order
C19_Witness ==
    \E r \in Slots :
        /\ DoneWith(r, "rank", 200) /\ Len(req[r].ids) = 3
        /\ req[r].ids[1].dkp < req[r].ids[2].dkp /\ req[r].ids[2].dkp < req[r].ids[3].dkp
        /\ \A k \in 1..3 : req[r].results[k].id = req[r].ids[4 - k].id

\* What the answer does say of affordability and eligibility: canAfford of
\* an entry is dkp >= minDkpCost, and eligibleWishes counts the entries of
\* an ACTIVE character that can afford the item.
RankFlags ==
    \A r \in Slots :
        DoneWith(r, "rank", 200) =>
            LET out == req[r].results
            IN /\ \A k \in 1..Len(out) : out[k].canAfford = (out[k].dkp >= req[r].amt)
               /\ req[r].cur = Cardinality({k \in 1..Len(out) :
                                    out[k].canAfford /\ out[k].active = "ACTIVE"})

\* C20: every entry of the ranking carries affordable (dkp >= minDkpCost)
\* and eligible (affordable and ACTIVE), eligible is false for a character
\* that is not ACTIVE, and the reported number of eligible wishers is the
\* number of entries with both.
C20_EntriesCarryEligible ==
    \A r \in Slots :
        DoneWith(r, "rank", 200) =>
            LET out == req[r].results
            IN /\ \A k \in 1..Len(out) :
                     /\ "canAfford" \in DOMAIN out[k]
                     /\ out[k].canAfford = (out[k].dkp >= req[r].amt)
                     /\ "eligible" \in DOMAIN out[k]
                     /\ out[k].eligible = (out[k].canAfford /\ out[k].active = "ACTIVE")
               /\ req[r].cur = Cardinality({k \in 1..Len(out) :
                                    out[k].canAfford /\ out[k].active = "ACTIVE"})

\* the levels the roles are ranked by: MEMBER 1 < OFFICER 2 < ADMIN 3
LevelOf(role) == CHOOSE n \in 1..3 : <<role, n>> \in {<<"MEMBER", 1>>, <<"OFFICER", 2>>, <<"ADMIN", 3>>}

\* C21: hasMinimumRole(actorRole, minimumRole) is true exactly when the
\* level of actorRole is at least the level of minimumRole (MEMBER 1,
\* OFFICER 2, ADMIN 3), on all nine pairs of roles; the OFFICER-or-ADMIN
\* gate admits exactly the roles of level 2 and more, the ADMIN gate exactly
\* level 3.
C21_AuthorizeByLevel ==
    \A r \in Slots :
        DoneWith(r, "authorize", 200) =>
            /\ req[r].results[1] = (LevelOf(req[r].role) >= LevelOf(req[r].newRole))
            /\ req[r].results[2] = (LevelOf(req[r].role) >= 2)
            /\ req[r].results[3] = (LevelOf(req[r].role) = 3)

\* a MEMBER against the minimum OFFICER is refused and an ADMIN against the
\* minimum MEMBER is let in
C21_Witness ==
    \E r1, r2 \in Slots :
        /\ DoneWith(r1, "authorize", 200) /\ DoneWith(r2, "authorize", 200)
        /\ req[r1].role = "MEMBER" /\ req[r1].newRole = "OFFICER"
        /\ req[r1].results = <<FALSE, FALSE, FALSE>>
        /\ req[r2].role = "ADMIN" /\ req[r2].newRole = "MEMBER"
        /\ req[r2].results = <<TRUE, TRUE, TRUE>>

\* a role-update or demote request of an ADMIN on their own user that asks
\* for a role below ADMIN (a body role outside the three roles is another
\* matter: it is refused as an invalid role)
SelfLowering(q) ==
    /\ q.op \in {"updateRole", "demote"}
    /\ q.role = "ADMIN" /\ q.target = q.user
    /\ q.op = "updateRole" => q.newRole \in {"MEMBER", "OFFICER"}

\* C22: an ADMIN cannot lower their own role.  A role-update or demote
\* request whose target is the acting ADMIN and whose result would be below
\* ADMIN is answered 400 at once, and the step that answers it finds the
\* stored role ADMIN and leaves the users table as it is.
C22_Step ==
    \A r \in Slots :
        (req'[r] # req[r] /\ SelfLowering(req'[r])) =>
            /\ users' = users
            /\ users'[req'[r].user] = "ADMIN"

C22_Refused ==
    \A r \in Slots :
        SelfLowering(req[r]) => req[r].pc = "done" /\ req[r].status = 400

C22_NoSelfDemotion == [][C22_Step]_vars /\ []C22_Refused

\* after a role operation that went through, an ADMIN asks to be demoted and
\* is refused
C22_Witness ==
    \E r1, r2 \in Slots :
        /\ r1 # r2 /\ req[r1].status = 200 /\ req[r1].pc = "done"
        /\ SelfLowering(req[r2]) /\ req[r2].status = 400
        /\ users[req[r2].user] = "ADMIN"

\* C30: from a users table with an ADMIN, every state reached through
\* role-update, promote and demote requests has an ADMIN, also when two
\* ADMINs demote each other with interleaved steps.
C30_AlwaysAnAdmin == \E u \in UserIds : users[u] = "ADMIN"

\* the pair a step of request q inserts, when the step is an accepted insert:
\* a single record leaving "insert" for the credit or the answer 201, a bulk
\* record leaving "bulkInsert" for the credit or the next id
AcceptedInsert(q, qn) ==
    \/ /\ q.op = "record" /\ q.pc = "insert"
       /\ qn.pc = "credit" \/ qn.status = 201
    \/ /\ q.op = "bulk" /\ q.pc = "bulkInsert"
       /\ qn.pc = "bulkCredit" \/ Len(qn.results) > Len(q.results)

InsertedPair(q) == IF q.op = "bulk" THEN <<q.e, q.ids[q.i]>> ELSE <<q.e, q.c>>

\* C23: the attendance table holds at most one row per (eventId,
\* characterId) under any interleaving of single record, bulk record and
\* remove.  The table is the set of its keys, so the statement is about the
\* inserts: an insert is accepted only for a pair that has no row, and the
\* table then holds exactly that pair more.
C23_OneRowPerPair ==
    [][\A r \in Slots :
          AcceptedInsert(req[r], req'[r]) =>
              /\ InsertedPair(req[r]) \notin attendance
              /\ attendance' = attendance \cup {InsertedPair(req[r])}]_vars

\* a single record and a bulk record went for the same pair: the pair has
\* its row, one insert was accepted and the other refused
C23_Witness ==
    \E r1, r2 \in Slots :
        /\ req[r1].op = "record" /\ req[r2].op = "bulk"
        /\ req[r1].pc = "done" /\ req[r2].pc = "done"
        /\ <<req[r1].e, req[r1].c>> \in attendance
        /\ req[r2].e = req[r1].e
        /\ \/ req[r1].status = 201 /\ CountFailed(req[r2].errors, req[r1].c) = 1
                /\ req[r2].errors[1][2] = "Failed to record attendance"
           \/ req[r1].status = 500 /\ Count(req[r2].results, req[r1].c) = 1

\* a removal leaving "delete" with its row deleted
AcceptedDelete(q, qn) ==
    /\ q.op = "remove" /\ q.pc = "delete"
    /\ qn.pc = "debit" \/ qn.status = 200

\* C28: under any interleaving of a bulk record, a single record and a
\* removal on one pair, every credit and debit goes with its row change:
\* the amount a call credits or debits for a row is the reward of the event
\* in force when the call inserts or deletes the row.
C28_RewardInForce ==
    [][\A r \in Slots :
          (AcceptedInsert(req[r], req'[r]) \/ AcceptedDelete(req[r], req'[r])) =>
              req[r].ev.dkpReward = events[req[r].e].dkpReward]_vars

\* C24: creating a wish for a pair that has a row fails with Conflict and
\* leaves the wishes as they are, also when two creations of one pair
\* interleave (one succeeds, the other is answered Conflict): a creation
\* that got past the validation and the ownership test, for a pair whose
\* row is there when it has answered, was answered 201 or 409.
C24_DuplicateIsConflict ==
    \A r \in Slots :
        (req[r].op = "wish" /\ req[r].pc = "done" /\ req[r].status \notin {400, 404}
            /\ <<req[r].c, req[r].item>> \in wish)
        => req[r].status \in {201, 409}

\* C26: attendance and wish rows never outlive a parent.  Every attendance
\* references an event and a character that have a row, every wish a
\* character and an item that have a row, whatever was deleted.
C26_NoOrphans ==
    /\ \A p \in attendance : events[p[1]].exists /\ chars[p[2]].exists
    /\ \A p \in wish : chars[p[1]].exists /\ p[2] \in items

\* a character made a wish and was deleted afterwards, and no wish of it
\* is left
C26_Witness ==
    \E r1, r2 \in Slots :
        /\ DoneWith(r1, "wish", 201) /\ DoneWith(r2, "deleteCharacter", 200)
        /\ req[r1].c = req[r2].c
        /\ ~chars[req[r1].c].exists
        /\ \A p \in wish : p[1] # req[r1].c

\* C25: every event that has a row starts before it ends and has a reward
\* that is not negative, in every reachable state: creations and updates
\* keep both or are refused.
C25_EventsValid ==
    \A e \in EventIds :
        events[e].exists =>
            /\ schedule[e].startTime < schedule[e].endTime
            /\ events[e].dkpReward >= 0

\* C27: a record call that passed its existence check and whose insert the
\* primary key then refused (the pair got its row in between) reports
\* Conflict: a call that got past the validation and the lookups, and whose
\* pair has its row when the call has answered, was answered 201 or 409.
C27_LostRaceIsConflict ==
    \A r \in Slots :
        (req[r].op = "record" /\ req[r].pc = "done" /\ req[r].status \notin {400, 404}
            /\ <<req[r].e, req[r].c>> \in attendance)
        => req[r].status \in {201, 409}

\* the sum of the amounts of the manual additions to c that were answered 200
RECURSIVE SumAdded(_, _)
SumAdded(S, c) ==
    IF S = {} THEN 0
    ELSE LET r == CHOOSE x \in S : TRUE
         IN (IF DoneWith(r, "adjust", 200) /\ req[r].c = c THEN req[r].amt ELSE 0)
            + SumAdded(S \ {r}, c)

\* C29: a manual adjustment adds to the field the attendance credits and
\* debits go to, and loses none of them.  When the manual adjustments are
\* additions and every call has answered, the dkp of a character is the sum
\* of the rewards of the events it attends plus the amounts added.
C29_ManualIsAdditive ==
    (NoneInFlight /\ \A r \in Slots : req[r].op = "adjust" => req[r].mode = "add")
    => \A c \in CharIds :
           chars[c].exists => chars[c].dkp = AttendedSum(c) + SumAdded(Slots, c)

====
